---- MODULE Spec2Model ----
(***************************************************************************)
(* Model of the Codility API client (src/api-calls.py) and of the export   *)
(* of completed sessions to CSV (src/export-completed-sessions.py).        *)
(*                                                                         *)
(* Two specifications share the module:                                    *)
(*   Spec        the export run, main(), split at its remote calls and at   *)
(*               the operator prompt;                                      *)
(*   SpecClient  one call of any of the client's methods.                   *)
(***************************************************************************)
EXTENDS Integers, Sequences, FiniteSets, TLC

VARIABLES
    api_key,            \* os.getenv("CODILITY_API_KEY"); "" when unset
    pc,                 \* position of main()
    tests,              \* tests_resp.get('tests', [])
    test_name,          \* the stripped operator input
    test_id,            \* matches[0]['id']
    sessions,           \* sessions_resp.get('sessions', [])
    idx,                \* 1-based position of the for loop in sessions
    data,               \* the detail record of the session being processed
    completed_records,  \* the rows appended so far
    file,               \* the CSV file, NoFile until open() runs
    exit_code,          \* the process exit code, NotExited while running
    error,              \* the exception that ended the run, "none" otherwise
    stdout,             \* the lines printed
    prompted,           \* whether input() has been called
    raw_name,           \* history: the line the operator typed, before strip()
    requests,           \* every HTTP request the run has issued, in order
    details,            \* history: the detail record received for each session
    sims,               \* history: per row, the similarity record received
    failed_at,          \* history: position in requests of the failed fetch, 0 if none
    call                \* SpecClient: the last client call and its outcome

vars == << api_key, pc, tests, test_name, test_id, sessions, idx, data,
           completed_records, file, exit_code, error, stdout, prompted,
           raw_name, requests, details, sims, failed_at, call >>

pipelineVars == << api_key, pc, tests, test_name, test_id, sessions, idx, data,
                   completed_records, file, exit_code, error, stdout, prompted,
                   raw_name, requests, details, sims, failed_at >>

-----------------------------------------------------------------------------
(* Bounds *)

MaxSessions == 2

-----------------------------------------------------------------------------
(* JSON values as Python sees them after response.json().  A value is a    *)
(* record [kind, val]; a dict's val is its sequence of <<key, value>>      *)
(* pairs in insertion order, a list's val the sequence of its items.  A    *)
(* string whose characters the code inspects (strip, replace) has as val   *)
(* the sequence of its characters; any other string is a TLA+ string.      *)
(* The mapping a response body parses to is a function from its keys.      *)

None == [kind |-> "null", val |-> "None"]
Str(s) == [kind |-> "str", val |-> s]
Num(n) == [kind |-> "num", val |-> n]
Bool(b) == [kind |-> "bool", val |-> b]
Dict(pairs) == [kind |-> "dict", val |-> pairs]
List(items) == [kind |-> "list", val |-> items]

\* isinstance(value, (dict, list))
IsContainer(v) == v.kind \in {"dict", "list"}

\* faulty variant: only None counts as false
IsTruthyNotNone(v) == v.kind # "null"

\* Python truth value of a JSON value, as `not data.get('end_time')` tests it
IsTruthy(v) ==
    CASE v.kind = "null" -> FALSE
      [] v.kind = "bool" -> v.val
      [] v.kind = "num"  -> v.val # 0
      [] OTHER           -> Len(v.val) > 0

\* dict.get(key, default) on a top-level record (a function from keys)
DictGet(d, key, default) == IF key \in DOMAIN d THEN d[key] ELSE default

\* dict.get(key, default) on a nested dict value
ValueGet(v, key, default) ==
    IF \E i \in 1..Len(v.val) : v.val[i][1] = key
    THEN v.val[CHOOSE i \in 1..Len(v.val) : v.val[i][1] = key][2]
    ELSE default

RECURSIVE JsonDumps(_)
RECURSIVE JsonItems(_)
RECURSIVE JsonMembers(_)

\* json.dumps(value) with the default separators
JsonDumps(v) ==
    CASE v.kind = "null" -> "null"
      [] v.kind = "bool" -> IF v.val THEN "true" ELSE "false"
      [] v.kind = "num"  -> ToString(v.val)
      [] v.kind = "str"  -> "\"" \o v.val \o "\""
      [] v.kind = "list" -> "[" \o JsonItems(v.val) \o "]"
      [] OTHER           -> "{" \o JsonMembers(v.val) \o "}"

JsonItems(items) ==
    IF items = << >> THEN ""
    ELSE IF Len(items) = 1 THEN JsonDumps(items[1])
    ELSE JsonDumps(items[1]) \o ", " \o JsonItems(Tail(items))

JsonMembers(pairs) ==
    IF pairs = << >> THEN ""
    ELSE LET m == "\"" \o pairs[1][1] \o "\": " \o JsonDumps(pairs[1][2])
         IN  IF Len(pairs) = 1 THEN m ELSE m \o ", " \o JsonMembers(Tail(pairs))

RECURSIVE PyRepr(_)
RECURSIVE PyReprItems(_)
RECURSIVE PyReprMembers(_)

\* repr(value), which str() of a container applies to what it holds
PyRepr(v) ==
    CASE v.kind = "null" -> "None"
      [] v.kind = "bool" -> IF v.val THEN "True" ELSE "False"
      [] v.kind = "num"  -> ToString(v.val)
      [] v.kind = "str"  -> "'" \o v.val \o "'"
      [] v.kind = "list" -> "[" \o PyReprItems(v.val) \o "]"
      [] OTHER           -> "{" \o PyReprMembers(v.val) \o "}"

PyReprItems(items) ==
    IF items = << >> THEN ""
    ELSE IF Len(items) = 1 THEN PyRepr(items[1])
    ELSE PyRepr(items[1]) \o ", " \o PyReprItems(Tail(items))

PyReprMembers(pairs) ==
    IF pairs = << >> THEN ""
    ELSE LET m == "'" \o pairs[1][1] \o "': " \o PyRepr(pairs[1][2])
         IN  IF Len(pairs) = 1 THEN m ELSE m \o ", " \o PyReprMembers(Tail(pairs))

-----------------------------------------------------------------------------
(* The API client *)

\* CodilityAPIClient.__init__: the default base URL, already without a trailing slash
base_url == "https://codility.com/api"

NoPayload == << >>

\* self.session.get(url) / .post(url, json=payload) / .delete(url)
HttpRequest(method, path, payload) ==
    [method |-> method, payload |-> payload, url |-> base_url \o path]

\* faulty variant: only the server error class raises
RaiseForStatusOnlyServerErrors(status) == 500 <= status /\ status < 600

\* response.raise_for_status(): raises HTTPError for 4xx and 5xx and for nothing else
RaiseForStatus(status) == 400 <= status /\ status < 600

\* The tail every method shares: raise_for_status(), then the return statement.
\* returns is "json" (response.json()), "content" (response.content) or "none".
\* resp is [status, json, body]: json says whether body parses as JSON.
Outcome(resp, returns) ==
    IF RaiseForStatus(resp.status)
    THEN [error |-> "HTTPError", raised |-> TRUE, returned |-> FALSE, value |-> None]
    ELSE IF returns = "json" /\ ~resp.json
    THEN [error |-> "JSONDecodeError", raised |-> TRUE, returned |-> FALSE, value |-> None]
    ELSE [error |-> "none", raised |-> FALSE, returned |-> TRUE,
          value |-> IF returns = "none" THEN None ELSE resp.body]

\* faulty variant: the request is sent a second time
ApiCallRetries(op, request, resp, returns) ==
    [op |-> op, outcome |-> Outcome(resp, returns),
     requests |-> << request, request >>, status |-> resp.status]

\* one client method: exactly one request, then Outcome
ApiCall(op, request, resp, returns) ==
    [op |-> op, outcome |-> Outcome(resp, returns),
     requests |-> << request >>, status |-> resp.status]

get_user_details(resp) ==
    ApiCall("get_user_details", HttpRequest("GET", "/account/user", NoPayload), resp, "json")

get_available_credits(resp) ==
    ApiCall("get_available_credits", HttpRequest("GET", "/account/credits", NoPayload), resp, "json")

list_user_logins(resp) ==
    ApiCall("list_user_logins", HttpRequest("GET", "/account/logins", NoPayload), resp, "json")

list_codelive_templates(resp) ==
    ApiCall("list_codelive_templates", HttpRequest("GET", "/codelive/templates", NoPayload), resp, "json")

\* payload = {'template_id': template_id, **candidate_info}: candidate_info's keys win
create_codelive_session(template_id, candidate_info, resp) ==
    ApiCall("create_codelive_session",
            HttpRequest("POST", "/codelive/sessions",
                        [k \in {"template_id"} \cup DOMAIN candidate_info |->
                            IF k \in DOMAIN candidate_info THEN candidate_info[k]
                            ELSE template_id]),
            resp, "json")

create_whiteboard(session_id, resp) ==
    ApiCall("create_whiteboard",
            HttpRequest("POST", "/codelive/whiteboards", [session_id |-> session_id]),
            resp, "json")

list_email_templates(resp) ==
    ApiCall("list_email_templates", HttpRequest("GET", "/email/templates", NoPayload), resp, "json")

get_default_email_template(resp) ==
    ApiCall("get_default_email_template",
            HttpRequest("GET", "/email/templates/default", NoPayload), resp, "json")

create_email_template(name, subject, body, resp) ==
    ApiCall("create_email_template",
            HttpRequest("POST", "/email/templates",
                        [body |-> body, name |-> name, subject |-> subject]),
            resp, "json")

list_sessions(resp) ==
    ApiCall("list_sessions", HttpRequest("GET", "/sessions", NoPayload), resp, "json")

get_session_data(session_id, resp) ==
    ApiCall("get_session_data",
            HttpRequest("GET", "/sessions/" \o session_id, NoPayload), resp, "json")

get_pdf_report(session_id, resp) ==
    ApiCall("get_pdf_report",
            HttpRequest("GET", "/sessions/" \o session_id \o "/report/pdf", NoPayload),
            resp, "content")

\* faulty variant: the report path is requested instead of the similarity path
get_similarity_results_wrong_path(session_id, resp) ==
    ApiCall("get_similarity_results",
            HttpRequest("GET", "/sessions/" \o session_id \o "/report/pdf", NoPayload),
            resp, "json")

get_similarity_results(session_id, resp) ==
    ApiCall("get_similarity_results",
            HttpRequest("GET", "/sessions/" \o session_id \o "/similarity", NoPayload),
            resp, "json")

email_candidates(session_id, email_template_id, resp) ==
    ApiCall("email_candidates",
            HttpRequest("POST", "/sessions/" \o session_id \o "/email",
                        [template_id |-> email_template_id]),
            resp, "json")

cancel_session(session_id, resp) ==
    ApiCall("cancel_session",
            HttpRequest("DELETE", "/sessions/" \o session_id, NoPayload), resp, "none")

embed_candidate_report(session_id, resp) ==
    ApiCall("embed_candidate_report",
            HttpRequest("GET", "/sessions/" \o session_id \o "/embed", NoPayload),
            resp, "json")

list_tests(resp) ==
    ApiCall("list_tests", HttpRequest("GET", "/tests", NoPayload), resp, "json")

get_test_details(tid, resp) ==
    ApiCall("get_test_details", HttpRequest("GET", "/tests/" \o tid, NoPayload), resp, "json")

list_test_sessions(tid, resp) ==
    ApiCall("list_test_sessions",
            HttpRequest("GET", "/tests/" \o tid \o "/sessions", NoPayload), resp, "json")

add_candidates(tid, candidates, resp) ==
    ApiCall("add_candidates",
            HttpRequest("POST", "/tests/" \o tid \o "/candidates",
                        [candidates |-> candidates]),
            resp, "json")

-----------------------------------------------------------------------------
(* What the remote system may answer *)

EmptyDict == [k \in {} |-> None]

\* the body of an error response and the body of a response that is not JSON
ErrorBody == [message |-> Str("error")]
NotJsonBody == [raw |-> Str("<html>")]

Ok(body) == [body |-> body, json |-> TRUE, status |-> 200]

\* the answers that make a fetch fail: an error status, or a body that is not JSON
FailureResponses ==
    { [body |-> ErrorBody, json |-> TRUE, status |-> 404],
      [body |-> NotJsonBody, json |-> FALSE, status |-> 500],
      [body |-> NotJsonBody, json |-> FALSE, status |-> 200] }

NameAB == << "A", " ", "B" >>
NameC == << "C" >>

Test1 == [id |-> "t1", title |-> Str(NameAB)]
Test2 == [id |-> "t2", name |-> Str(NameAB)]
Test3 == [id |-> "t3", name |-> Str(NameC), title |-> Str(NameAB \o << " " >>)]
Test4 == [id |-> "t4", title |-> None]

TestLists ==
    { << >>, << Test1 >>, << Test1, Test2 >>, << Test2, Test1 >>, << Test3, Test1 >>,
      << Test4 >> }

TestsResponses ==
    { Ok([tests |-> l]) : l \in TestLists }
    \cup { Ok(EmptyDict), [body |-> [tests |-> << Test1 >>], json |-> TRUE, status |-> 304] }
    \cup FailureResponses

\* what the operator may type
RawInputs ==
    { NameAB, << " " >> \o NameAB \o << " " >>, NameC, << "D" >> }

SessionIds == { "s1", "s2" }

SessionLists ==
    UNION { [1..n -> { [id |-> Str(s)] : s \in SessionIds }] : n \in 0..MaxSessions }

SessionsResponses ==
    { Ok([sessions |-> l]) : l \in SessionLists }
    \cup { Ok(EmptyDict) }
    \cup FailureResponses

CandidateAnn ==
    Dict(<< << "firstName", Str("Ann") >>, << "lastName", Str("Lee") >>,
            << "email", Str("a@x.com") >> >>)

CandidateNested ==
    Dict(<< << "firstName", Dict(<< << "given", Str("Bo") >> >>) >>,
            << "email", List(<< Str("b@x.com") >>) >> >>)

SessionDataSet ==
    { [candidate |-> CandidateAnn, end_time |-> Str("2024-02-02")],
      [end_time |-> Str("2024-01-01"), nested |-> Dict(<< << "a", Num(1) >> >>)],
      [candidate |-> CandidateNested, email |-> Str("x"), end_time |-> Str("2024-03-03")],
      [candidate |-> CandidateAnn, end_time |-> None],
      [end_time |-> Str("")],
      [candidate |-> CandidateAnn] }

DetailResponses ==
    { Ok(d) : d \in SessionDataSet }
    \cup { [body |-> [end_time |-> Str("")], json |-> TRUE, status |-> 304] }
    \cup FailureResponses

SimilarityDataSet ==
    { EmptyDict,
      [score |-> Num(2)],
      [candidate |-> List(<< Num(1), Bool(TRUE), None >>), email |-> Str("m")] }

SimilarityResponses ==
    { Ok(m) : m \in SimilarityDataSet } \cup FailureResponses

\* a fetch fails when the answer has a 4xx or 5xx status or a body that is not JSON
FetchFailed(resp) == resp.status \in 400..599 \/ ~resp.json

-----------------------------------------------------------------------------
(* Helpers of the export script *)

RECURSIVE LStrip(_)
LStrip(s) == IF s # << >> /\ Head(s) = " " THEN LStrip(Tail(s)) ELSE s

RECURSIVE RStrip(_)
RStrip(s) ==
    IF s # << >> /\ s[Len(s)] = " " THEN RStrip(SubSeq(s, 1, Len(s) - 1)) ELSE s

\* str.strip()
Strip(s) == RStrip(LStrip(s))

\* str.replace(old, new) for one-character old and new
Replace(s, old, new) == [i \in 1..Len(s) |-> IF s[i] = old THEN new ELSE s[i]]

\* t.get('title') or t.get('name') or '<unnamed>'
DisplayName(t) ==
    IF IsTruthy(DictGet(t, "title", None)) THEN DictGet(t, "title", None).val
    ELSE IF IsTruthy(DictGet(t, "name", None)) THEN DictGet(t, "name", None).val
    ELSE << "<unnamed>" >>

\* value == test_name for a value a test's field holds
PyEq(v, s) == v.kind = "str" /\ v.val = s

NameMatches(t, name) ==
    PyEq(DictGet(t, "title", None), name) \/ PyEq(DictGet(t, "name", None), name)

\* faulty variant: the last match is taken
MatchesReversed(ts, name) ==
    LET m == SelectSeq(ts, LAMBDA t : NameMatches(t, name))
    IN  [i \in 1..Len(m) |-> m[Len(m) + 1 - i]]

\* matches = [t for t in tests if (t.get('title') == test_name) or (t.get('name') == test_name)]
Matches(ts, name) == SelectSeq(ts, LAMBDA t : NameMatches(t, name))

\* str(value), as an f-string formats it
PyStr(v) == IF v.kind = "str" THEN v.val ELSE PyRepr(v)

\* json.dumps(value) if isinstance(value, (dict, list)) else value
Encode(v) == IF IsContainer(v) THEN Str(JsonDumps(v)) ELSE v

\* record[key] = value
SetItem(record, key, value) ==
    [c \in DOMAIN record \cup {key} |-> IF c = key THEN value ELSE record[c]]

\* faulty variant: the similarity keys are not prefixed
flatten_data_unprefixed(session_data, similarity_data) ==
    LET skeys == DOMAIN session_data \ {"candidate"}
        scols == { "session_" \o k : k \in skeys }
    IN  [c \in scols \cup DOMAIN similarity_data |->
            IF c \in DOMAIN similarity_data THEN Encode(similarity_data[c])
            ELSE Encode(session_data[CHOOSE k \in skeys : "session_" \o k = c])]

\* flatten_data: the session keys but 'candidate' under session_, then the similarity
\* keys under similarity_; a later assignment to the same column wins
flatten_data(session_data, similarity_data) ==
    LET skeys == DOMAIN session_data \ {"candidate"}
        mkeys == DOMAIN similarity_data
        scols == { "session_" \o k : k \in skeys }
        mcols == { "similarity_" \o k : k \in mkeys }
    IN  [c \in scols \cup mcols |->
            IF c \in mcols
            THEN Encode(similarity_data[CHOOSE k \in mkeys : "similarity_" \o k = c])
            ELSE Encode(session_data[CHOOSE k \in skeys : "session_" \o k = c])]

\* lines 79-86: the flattened record with the three candidate fields added
MakeRecord(session_data, similarity_data) ==
    LET candidate == DictGet(session_data, "candidate", Dict(<< >>))
        r0 == flatten_data(session_data, similarity_data)
        r1 == SetItem(r0, "first_name", ValueGet(candidate, "firstName", Str("")))
        r2 == SetItem(r1, "last_name", ValueGet(candidate, "lastName", Str("")))
    IN  SetItem(r2, "email", ValueGet(candidate, "email", Str("")))

\* the column names the model can produce, in the order sorted() gives them
ColumnOrder ==
    << "email", "first_name", "last_name", "session_email", "session_end_time",
       "session_message", "session_nested", "similarity_candidate",
       "similarity_email", "similarity_message", "similarity_score" >>

\* sorted(keys)
Sorted(keys) == SelectSeq(ColumnOrder, LAMBDA c : c \in keys)

\* the text csv.writer puts in a cell: '' for None, str(value) otherwise
CsvCell(v) == IF v.kind = "null" THEN "" ELSE PyStr(v)

\* DictWriter._dict_to_list with extrasaction='raise', the default
WrongFields(rowdict, fieldnames) ==
    DOMAIN rowdict \ { fieldnames[i] : i \in 1..Len(fieldnames) }

\* the cells of one row, restval '' where the row lacks the field
DictToList(rowdict, fieldnames) ==
    [i \in 1..Len(fieldnames) |-> CsvCell(DictGet(rowdict, fieldnames[i], Str("")))]

\* writer.writerows(records): the rows before the first one with a wrong field
RECURSIVE WriteRows(_, _)
WriteRows(records, fieldnames) ==
    IF records = << >> \/ WrongFields(Head(records), fieldnames) # {} THEN << >>
    ELSE << DictToList(Head(records), fieldnames) >> \o WriteRows(Tail(records), fieldnames)

-----------------------------------------------------------------------------
(* The export run *)

NoFile == [header |-> << >>, lines |-> << >>, name |-> << >>, open |-> FALSE]
NotExited == -1
NoTest == ""
NoCall ==
    [op |-> "none",
     outcome |-> [error |-> "none", raised |-> FALSE, returned |-> FALSE, value |-> None],
     requests |-> << >>, status |-> 0]

Init ==
    /\ api_key \in { "", "key" }
    /\ pc = "start"
    /\ tests = << >>
    /\ test_name = << >>
    /\ raw_name = << >>
    /\ test_id = NoTest
    /\ sessions = << >>
    /\ idx = 1
    /\ data = EmptyDict
    /\ completed_records = << >>
    /\ file = NoFile
    /\ exit_code = NotExited
    /\ error = "none"
    /\ stdout = << >>
    /\ prompted = FALSE
    /\ requests = << >>
    /\ details = << >>
    /\ sims = << >>
    /\ failed_at = 0
    /\ call = NoCall

\* sys.exit(code) after print(line)
SysExit(code, line) ==
    /\ pc' = "exited"
    /\ exit_code' = code
    /\ error' = "none"
    /\ stdout' = Append(stdout, line)

\* an exception nothing catches: the traceback, exit code 1
Uncaught(exception) ==
    /\ pc' = "exited"
    /\ exit_code' = 1
    /\ error' = exception
    /\ UNCHANGED stdout

\* the request of a client call goes out; a failed fetch is remembered
Send(c, resp) ==
    /\ requests' = requests \o c.requests
    /\ failed_at' = IF FetchFailed(resp) THEN Len(requests) + Len(c.requests) ELSE failed_at

\* lines 40-43
MissingApiKey ==
    /\ pc = "start"
    /\ api_key = ""
    /\ SysExit(1, << "Error: Please set the CODILITY_API_KEY environment variable." >>)
    /\ UNCHANGED << api_key, tests, test_name, raw_name, test_id, sessions, idx, data,
                    completed_records, file, prompted, requests, details, sims,
                    failed_at, call >>

\* lines 45-57
ListTests ==
    /\ pc = "start"
    /\ api_key # ""
    /\ \E resp \in TestsResponses :
        LET c == list_tests(resp)
            ts == DictGet(c.outcome.value, "tests", << >>)
        IN  /\ Send(c, resp)
            /\ IF c.outcome.raised
               THEN Uncaught(c.outcome.error) /\ UNCHANGED tests
               ELSE /\ tests' = ts
                    /\ IF ts = << >>
                       THEN SysExit(0, << "No tests found in your account." >>)
                       ELSE /\ pc' = "prompt"
                            /\ stdout' = stdout \o << << "Available tests:" >> >>
                                   \o [i \in 1..Len(ts) |-> << ts[i]["id"], DisplayName(ts[i]) >>]
                            /\ UNCHANGED << exit_code, error >>
    /\ UNCHANGED << api_key, test_name, raw_name, test_id, sessions, idx, data,
                    completed_records, file, prompted, details, sims, call >>

\* lines 59-68
ResolveTest ==
    /\ pc = "prompt"
    /\ \E raw \in RawInputs, resp \in SessionsResponses :
        LET name == Strip(raw)
            matches == Matches(tests, name)
        IN  /\ prompted' = TRUE
            /\ raw_name' = raw
            /\ test_name' = name
            /\ IF matches = << >>
               THEN /\ SysExit(1, << "No test found with name", name >>)
                    /\ UNCHANGED << test_id, sessions, requests, failed_at >>
               ELSE LET c == list_test_sessions(matches[1]["id"], resp)
                    IN  /\ test_id' = matches[1]["id"]
                        /\ Send(c, resp)
                        /\ IF c.outcome.raised
                           THEN Uncaught(c.outcome.error) /\ UNCHANGED sessions
                           ELSE /\ sessions' = DictGet(c.outcome.value, "sessions", << >>)
                                /\ pc' = "loop"
                                /\ UNCHANGED << exit_code, error, stdout >>
    /\ UNCHANGED << api_key, tests, idx, data, completed_records, file, details, sims, call >>

\* faulty variant: the detail record of a session id seen before is reused
GetSessionDataCached ==
    /\ pc = "loop"
    /\ idx <= Len(sessions)
    /\ \E resp \in DetailResponses :
        LET session_id == DictGet(sessions[idx], "id", None)
            c == get_session_data(PyStr(session_id), resp)
            seen == { j \in 1..(idx - 1) : sessions[j] = sessions[idx] }
            value == IF seen = {} THEN c.outcome.value ELSE details[CHOOSE j \in seen : TRUE]
        IN  /\ IF seen = {} THEN Send(c, resp) ELSE UNCHANGED << requests, failed_at >>
            /\ IF seen = {} /\ c.outcome.raised
               THEN Uncaught(c.outcome.error) /\ UNCHANGED << data, details, idx >>
               ELSE /\ data' = value
                    /\ details' = Append(details, value)
                    /\ IF ~IsTruthy(DictGet(value, "end_time", None))
                       THEN pc' = "loop" /\ idx' = idx + 1
                       ELSE pc' = "similarity" /\ UNCHANGED idx
                    /\ UNCHANGED << exit_code, error, stdout >>
    /\ UNCHANGED << api_key, tests, test_name, raw_name, test_id, sessions,
                    completed_records, file, prompted, sims, call >>

\* lines 71-76
GetSessionData ==
    /\ pc = "loop"
    /\ idx <= Len(sessions)
    /\ \E resp \in DetailResponses :
        LET session_id == DictGet(sessions[idx], "id", None)
            c == get_session_data(PyStr(session_id), resp)
        IN  /\ Send(c, resp)
            /\ IF c.outcome.raised
               THEN Uncaught(c.outcome.error) /\ UNCHANGED << data, details, idx >>
               ELSE /\ data' = c.outcome.value
                    /\ details' = Append(details, c.outcome.value)
                    /\ IF ~IsTruthy(DictGet(c.outcome.value, "end_time", None))
                       THEN pc' = "loop" /\ idx' = idx + 1
                       ELSE pc' = "similarity" /\ UNCHANGED idx
                    /\ UNCHANGED << exit_code, error, stdout >>
    /\ UNCHANGED << api_key, tests, test_name, raw_name, test_id, sessions,
                    completed_records, file, prompted, sims, call >>

\* lines 78-88
GetSimilarity ==
    /\ pc = "similarity"
    /\ \E resp \in SimilarityResponses :
        LET session_id == DictGet(sessions[idx], "id", None)
            c == get_similarity_results(PyStr(session_id), resp)
        IN  /\ Send(c, resp)
            /\ IF c.outcome.raised
               THEN Uncaught(c.outcome.error) /\ UNCHANGED << completed_records, sims, idx >>
               ELSE /\ completed_records' =
                          Append(completed_records, MakeRecord(data, c.outcome.value))
                    /\ sims' = Append(sims, [session |-> idx, similarity |-> c.outcome.value])
                    /\ idx' = idx + 1
                    /\ pc' = "loop"
                    /\ UNCHANGED << exit_code, error, stdout >>
    /\ UNCHANGED << api_key, tests, test_name, raw_name, test_id, sessions, data,
                    file, prompted, details, call >>

\* faulty variant: an empty file is left behind
NoCompletedSessionsWritesFile ==
    /\ pc = "loop"
    /\ idx > Len(sessions)
    /\ completed_records = << >>
    /\ file' = [NoFile EXCEPT !.open = TRUE]
    /\ SysExit(0, << "No completed sessions found for this test." >>)
    /\ UNCHANGED << api_key, tests, test_name, raw_name, test_id, sessions, idx, data,
                    completed_records, prompted, requests, details, sims,
                    failed_at, call >>

\* lines 90-92
NoCompletedSessions ==
    /\ pc = "loop"
    /\ idx > Len(sessions)
    /\ completed_records = << >>
    /\ SysExit(0, << "No completed sessions found for this test." >>)
    /\ UNCHANGED << api_key, tests, test_name, raw_name, test_id, sessions, idx, data,
                    completed_records, file, prompted, requests, details, sims,
                    failed_at, call >>

\* lines 94-107
WriteCsv ==
    /\ pc = "loop"
    /\ idx > Len(sessions)
    /\ completed_records # << >>
    /\ LET fieldnames == Sorted(DOMAIN completed_records[1])
           safe_name == Replace(test_name, " ", "_")
           filename == safe_name \o << "_completed_sessions.csv" >>
           lines == WriteRows(completed_records, fieldnames)
       IN  /\ file' = [header |-> fieldnames, lines |-> lines, name |-> filename,
                       open |-> TRUE]
           /\ IF Len(lines) < Len(completed_records)
              THEN Uncaught("ValueError")
              ELSE /\ pc' = "done"
                   /\ exit_code' = 0
                   /\ error' = "none"
                   /\ stdout' = Append(stdout,
                          << "Exported", Len(completed_records), filename >>)
    /\ UNCHANGED << api_key, tests, test_name, raw_name, test_id, sessions, idx, data,
                    completed_records, prompted, requests, details, sims,
                    failed_at, call >>

Next ==
    \/ MissingApiKey
    \/ ListTests
    \/ ResolveTest
    \/ GetSessionData
    \/ GetSimilarity
    \/ NoCompletedSessions
    \/ WriteCsv

Spec == Init /\ [][Next]_vars

-----------------------------------------------------------------------------
(* One call of a client method *)

ClientStatuses == { 200, 201, 204, 304, 400, 404, 429, 500, 503 }

ClientResponses ==
    { [body |-> [ok |-> Bool(TRUE)], json |-> TRUE, status |-> st] : st \in ClientStatuses }
    \cup { [body |-> NotJsonBody, json |-> FALSE, status |-> st] : st \in ClientStatuses }

CandidateInfos == { EmptyDict, [email |-> "c@x.com"], [template_id |-> "other"] }
CandidateLists == { << >>, << [email |-> "c@x.com", name |-> "Cy"] >> }

ClientInit == Init /\ api_key = "key"

ClientNext ==
    \/ \E r \in ClientResponses : call' = get_user_details(r) /\ UNCHANGED pipelineVars
    \/ \E r \in ClientResponses : call' = get_available_credits(r) /\ UNCHANGED pipelineVars
    \/ \E r \in ClientResponses : call' = list_user_logins(r) /\ UNCHANGED pipelineVars
    \/ \E r \in ClientResponses : call' = list_codelive_templates(r) /\ UNCHANGED pipelineVars
    \/ \E r \in ClientResponses, info \in CandidateInfos :
          call' = create_codelive_session("tpl1", info, r) /\ UNCHANGED pipelineVars
    \/ \E r \in ClientResponses, sid \in SessionIds : call' = create_whiteboard(sid, r) /\ UNCHANGED pipelineVars
    \/ \E r \in ClientResponses : call' = list_email_templates(r) /\ UNCHANGED pipelineVars
    \/ \E r \in ClientResponses : call' = get_default_email_template(r) /\ UNCHANGED pipelineVars
    \/ \E r \in ClientResponses : call' = create_email_template("n", "s", "b", r) /\ UNCHANGED pipelineVars
    \/ \E r \in ClientResponses : call' = list_sessions(r) /\ UNCHANGED pipelineVars
    \/ \E r \in ClientResponses, sid \in SessionIds : call' = get_session_data(sid, r) /\ UNCHANGED pipelineVars
    \/ \E r \in ClientResponses, sid \in SessionIds : call' = get_pdf_report(sid, r) /\ UNCHANGED pipelineVars
    \/ \E r \in ClientResponses, sid \in SessionIds : call' = get_similarity_results(sid, r) /\ UNCHANGED pipelineVars
    \/ \E r \in ClientResponses, sid \in SessionIds : call' = email_candidates(sid, "tpl1", r) /\ UNCHANGED pipelineVars
    \/ \E r \in ClientResponses, sid \in SessionIds : call' = cancel_session(sid, r) /\ UNCHANGED pipelineVars
    \/ \E r \in ClientResponses, sid \in SessionIds : call' = embed_candidate_report(sid, r) /\ UNCHANGED pipelineVars
    \/ \E r \in ClientResponses : call' = list_tests(r) /\ UNCHANGED pipelineVars
    \/ \E r \in ClientResponses : call' = get_test_details("t1", r) /\ UNCHANGED pipelineVars
    \/ \E r \in ClientResponses : call' = list_test_sessions("t1", r) /\ UNCHANGED pipelineVars
    \/ \E r \in ClientResponses, cs \in CandidateLists : call' = add_candidates("t1", cs, r) /\ UNCHANGED pipelineVars

SpecClient == ClientInit /\ [][ClientNext]_vars

-----------------------------------------------------------------------------
(* Vocabulary of the properties *)

\* the completion marker: end_time present, not null and not empty
HasCompletionMarker(d) ==
    /\ "end_time" \in DOMAIN d
    /\ d["end_time"].kind # "null"
    /\ d["end_time"].kind \in {"str", "list", "dict"} => Len(d["end_time"].val) > 0

\* the positions of seq, in order, at which P holds
PositionsWhere(n, P(_)) == SelectSeq([i \in 1..n |-> i], P)

CountRequests(P(_)) == Cardinality({ i \in 1..Len(requests) : P(requests[i]) })

TestsRequest == [method |-> "GET", payload |-> << >>, url |-> "https://codility.com/api/tests"]
SessionListRequest(tid) ==
    [method |-> "GET", payload |-> << >>,
     url |-> "https://codility.com/api/tests/" \o tid \o "/sessions"]
DetailRequest(sid) ==
    [method |-> "GET", payload |-> << >>, url |-> "https://codility.com/api/sessions/" \o sid]
SimilarityRequest(sid) ==
    [method |-> "GET", payload |-> << >>,
     url |-> "https://codility.com/api/sessions/" \o sid \o "/similarity"]

SessionIdAt(i) == sessions[i]["id"].val

\* the run has left the session loop without a failed fetch
LoopFinished ==
    test_id # NoTest /\ failed_at = 0 /\ pc \in {"exited", "done"}

-----------------------------------------------------------------------------
(* Properties of the export run and of the client *)

\* C1: once a remote fetch has failed (the test list, the session list, a
\* session detail or a similarity fetch), the run has ended with an uncaught
\* error at that very fetch: the failed request is the last one issued, the
\* exit code is not zero and the output file does not exist, whatever rows
\* had been collected before.
C1_FetchFailureAborts ==
    failed_at > 0 =>
        /\ pc = "exited"
        /\ error \in {"HTTPError", "JSONDecodeError"}
        /\ exit_code # 0
        /\ Len(requests) = failed_at
        /\ file = NoFile

C1_Witness ==
    /\ failed_at > 0
    /\ pc = "exited"
    /\ Len(completed_records) >= 1
    /\ idx <= Len(sessions)

\* C2: the rows are exactly the processed sessions whose detail record has a
\* non-empty end_time, one row each and in list order; a session without the
\* marker yields no row and no error, and a run that ends without a failed
\* fetch has gone through every session of the list.
C2_RowsAreCompletedSessions ==
    /\ Len(completed_records) = Len(sims)
    /\ idx - 1 <= Len(details)
    /\ [i \in 1..Len(sims) |-> sims[i].session]
          = PositionsWhere(idx - 1, LAMBDA i : HasCompletionMarker(details[i]))
    /\ pc \in {"loop", "similarity"} => error = "none" /\ exit_code = NotExited
    /\ LoopFinished => Len(details) = Len(sessions) /\ idx = Len(sessions) + 1

C2_Witness ==
    /\ pc = "done"
    /\ Len(sessions) = 2
    /\ ~HasCompletionMarker(details[1])
    /\ HasCompletionMarker(details[2])
    /\ Len(completed_records) = 1

\* C3 (as stated): a response with any status outside 2xx makes the client
\* call fail: one request was sent, the call raised and returned nothing.
C3_NonSuccessStatusFails ==
    (call.op # "none" /\ call.status \notin 200..299) =>
        /\ Len(call.requests) = 1
        /\ call.outcome.raised
        /\ ~call.outcome.returned

\* C3 (amended): a response with a 4xx or 5xx status makes the client call
\* fail with an HTTP error: one request was sent, the call raised and returned
\* nothing, for every method of the client.
C3_ErrorStatusFails ==
    (call.op # "none" /\ call.status \in 400..599) =>
        /\ Len(call.requests) = 1
        /\ call.outcome.raised
        /\ call.outcome.error = "HTTPError"
        /\ ~call.outcome.returned

C3_Witness ==
    /\ call.op = "cancel_session"
    /\ call.status = 404
    /\ call.outcome.raised
    /\ call.requests[1].method = "DELETE"

\* C4: no cell of any row is a raw mapping or list, the promoted first_name,
\* last_name and email cells included.
C4_RowsHoldNoContainer ==
    \A i \in 1..Len(completed_records) :
        \A c \in DOMAIN completed_records[i] :
            completed_records[i][c].kind \notin {"dict", "list"}

\* the JSON text Python produces for the nested values of the sample records
KnownJsonText(v) ==
    CASE v = Dict(<< << "a", Num(1) >> >>) -> "{\"a\": 1}"
      [] v = List(<< Num(1), Bool(TRUE), None >>) -> "[1, true, null]"
      [] OTHER -> ""

\* a cell carries a source value: a scalar as it is, a nested value as JSON text
Carries(cell, v) ==
    IF v.kind \in {"dict", "list"}
    THEN cell.kind = "str" /\ (KnownJsonText(v) # "" => cell.val = KnownJsonText(v))
    ELSE cell = v

\* the candidate's field, '' when the candidate or the field is absent
Promoted(cell, d, field) ==
    LET pairs == IF "candidate" \in DOMAIN d THEN d["candidate"].val ELSE << >>
    IN  /\ \A j \in 1..Len(pairs) : pairs[j][1] = field => cell = pairs[j][2]
        /\ (\A j \in 1..Len(pairs) : pairs[j][1] # field) => cell = Str("")

\* C5: each row has first_name, last_name and email from the candidate
\* sub-record, no session_candidate column, every other session field under
\* session_ and every similarity field under similarity_, and no column has
\* overwritten another.
C5_RowColumns ==
    \A i \in 1..Len(completed_records) :
        LET r == completed_records[i]
            d == details[sims[i].session]
            m == sims[i].similarity
            skeys == DOMAIN d \ {"candidate"}
        IN  /\ {"first_name", "last_name", "email"} \subseteq DOMAIN r
            /\ Promoted(r["first_name"], d, "firstName")
            /\ Promoted(r["last_name"], d, "lastName")
            /\ Promoted(r["email"], d, "email")
            /\ "session_candidate" \notin DOMAIN r
            /\ \A k \in skeys :
                  /\ ("session_" \o k) \in DOMAIN r
                  /\ Carries(r["session_" \o k], d[k])
            /\ \A k \in DOMAIN m :
                  /\ ("similarity_" \o k) \in DOMAIN r
                  /\ Carries(r["similarity_" \o k], m[k])
            /\ Cardinality(DOMAIN r) = 3 + Cardinality(skeys) + Cardinality(DOMAIN m)

C5_Witness ==
    \E i \in 1..Len(completed_records) :
        /\ {"session_email", "similarity_email", "similarity_candidate"}
              \subseteq DOMAIN completed_records[i]
        /\ "candidate" \in DOMAIN details[sims[i].session]
        /\ completed_records[i]["session_email"] = Str("x")
        /\ completed_records[i]["similarity_email"] = Str("m")

\* C6: an empty test list ends the run with exit code zero, without the
\* prompt, without a second request and without a file; a resolved test none
\* of whose sessions has a non-empty end_time ends the run with exit code zero
\* and without a file.
C6_EmptyResultsExitCleanly ==
    /\ (Len(requests) >= 1 /\ failed_at # 1 /\ tests = << >>) =>
          /\ pc = "exited"
          /\ exit_code = 0
          /\ ~prompted
          /\ Len(requests) = 1
          /\ file = NoFile
    /\ (/\ LoopFinished
        /\ \A i \in 1..Len(details) : ~HasCompletionMarker(details[i])) =>
          /\ pc = "exited"
          /\ exit_code = 0
          /\ error = "none"
          /\ file = NoFile

C6_Witness ==
    /\ LoopFinished
    /\ Len(sessions) = 2
    /\ Len(details) = 2
    /\ \A i \in 1..Len(details) : ~HasCompletionMarker(details[i])
    /\ exit_code = 0

\* the first test of the list whose title or name is the given name, 0 if none
FirstMatch(name) ==
    LET hit(i) == \/ ("title" \in DOMAIN tests[i] /\ tests[i]["title"] = Str(name))
                  \/ ("name" \in DOMAIN tests[i] /\ tests[i]["name"] = Str(name))
    IN  IF \E i \in 1..Len(tests) : hit(i)
        THEN CHOOSE i \in 1..Len(tests) : hit(i) /\ \A j \in 1..(i - 1) : ~hit(j)
        ELSE 0

\* what the claim says of a run that has resolved `name`
ResolvedAs(name) ==
    IF FirstMatch(name) = 0
    THEN /\ pc = "exited"
         /\ exit_code # 0
         /\ Len(requests) = 1
         /\ file = NoFile
    ELSE /\ test_id = tests[FirstMatch(name)]["id"]
         /\ Len(requests) >= 2
         /\ requests[2] = SessionListRequest(tests[FirstMatch(name)]["id"])
         /\ \A i \in 3..Len(requests) : requests[i].url # requests[2].url

\* C7 (as stated): the test resolved is the first whose title or name equals
\* the line the operator typed, exactly; without such a test the run exits
\* non-zero before the session-list fetch and without a file.
C7_ExactNameResolution == prompted => ResolvedAs(raw_name)

\* s is raw without its leading and trailing spaces
IsTrimOf(s, raw) ==
    /\ s # << >> => s[1] # " " /\ s[Len(s)] # " "
    /\ \E a \in 0..Len(raw) :
          /\ a + Len(s) <= Len(raw)
          /\ SubSeq(raw, a + 1, a + Len(s)) = s
          /\ \A j \in (1..a) \cup ((a + Len(s) + 1)..Len(raw)) : raw[j] = " "

\* C7 (amended): the test resolved is the first whose title or name equals
\* the line the operator typed with its leading and trailing whitespace
\* removed; without such a test the run exits non-zero before the
\* session-list fetch and without a file.
C7_TrimmedNameResolution ==
    prompted => IsTrimOf(test_name, raw_name) /\ ResolvedAs(test_name)

C7_Witness ==
    /\ prompted
    /\ tests = << Test2, Test1 >>
    /\ test_id = "t2"
    /\ raw_name # test_name
    /\ Len(requests) >= 3

\* position of a column in the sorted order of all columns
ColumnRank(c) == CHOOSE i \in 1..Len(ColumnOrder) : ColumnOrder[i] = c

\* C8: once the file is open, its header is the sorted key set of the first
\* row, and the export has completed: one line per produced row, an extra key
\* of a later row dropped, a missing key written as an empty cell, the count
\* of all rows reported.
C8_FirstRowSchemaExportCompletes ==
    file.open =>
        /\ { file.header[i] : i \in 1..Len(file.header) } = DOMAIN completed_records[1]
        /\ \A i, j \in 1..Len(file.header) :
              i < j => ColumnRank(file.header[i]) < ColumnRank(file.header[j])
        /\ pc = "done"
        /\ exit_code = 0
        /\ Len(file.lines) = Len(completed_records)
        /\ stdout[Len(stdout)][1] = "Exported"
        /\ stdout[Len(stdout)][2] = Len(completed_records)
        /\ \A i \in 1..Len(file.lines) :
              \A j \in 1..Len(file.header) :
                  file.header[j] \notin DOMAIN completed_records[i]
                      => file.lines[i][j] = ""

\* C9 (as stated): a run through a list of N sessions without a failed fetch
\* issues 1 session-list fetch, N detail fetches and N similarity fetches.
C9_NFetchesEach ==
    LoopFinished =>
        /\ CountRequests(LAMBDA r : r = SessionListRequest(test_id)) = 1
        /\ CountRequests(LAMBDA r : \E s \in SessionIds : r = DetailRequest(s))
              = Len(sessions)
        /\ CountRequests(LAMBDA r : \E s \in SessionIds : r = SimilarityRequest(s))
              = Len(sessions)

\* C9 (amended): a run through a list of N sessions without a failed fetch
\* issues 1 session-list fetch, N detail fetches, and one similarity fetch
\* for each entry whose detail record has a non-empty end_time and none for
\* the others, an entry that repeats a session id counted again.
C9_FetchCounts ==
    LoopFinished =>
        /\ CountRequests(LAMBDA r : r = SessionListRequest(test_id)) = 1
        /\ CountRequests(LAMBDA r : \E s \in SessionIds : r = DetailRequest(s))
              = Len(sessions)
        /\ CountRequests(LAMBDA r : \E s \in SessionIds : r = SimilarityRequest(s))
              = Cardinality({ i \in 1..Len(sessions) : HasCompletionMarker(details[i]) })
        /\ Len(requests) = 2 + Len(sessions)
              + Cardinality({ i \in 1..Len(sessions) : HasCompletionMarker(details[i]) })

C9_Witness ==
    /\ LoopFinished
    /\ Len(sessions) = 2
    /\ sessions[1] = sessions[2]
    /\ HasCompletionMarker(details[1])
    /\ HasCompletionMarker(details[2])
    /\ Len(requests) = 6

\* the requests of the sessions 1..k once they are fully processed
RECURSIVE ProcessedRequests(_)
ProcessedRequests(k) ==
    IF k = 0 THEN << >>
    ELSE ProcessedRequests(k - 1)
         \o << DetailRequest(SessionIdAt(k)) >>
         \o (IF HasCompletionMarker(details[k])
             THEN << SimilarityRequest(SessionIdAt(k)) >> ELSE << >>)

\* the requests of the session the run is at or stopped at
CurrentRequests ==
    IF pc = "similarity" THEN << DetailRequest(SessionIdAt(idx)) >>
    ELSE IF pc = "exited" /\ failed_at > 2 /\ Len(details) = idx
    THEN << DetailRequest(SessionIdAt(idx)), SimilarityRequest(SessionIdAt(idx)) >>
    ELSE IF pc = "exited" /\ failed_at > 2
    THEN << DetailRequest(SessionIdAt(idx)) >>
    ELSE << >>

\* C10: the requests go out one at a time in a fixed order: the test list,
\* the session list of the resolved test, then per session in list order its
\* detail fetch followed at once by its similarity fetch; a similarity fetch
\* goes out only for a session whose detail record came back with a non-empty
\* end_time; the file is opened only after the last fetch has returned.
C10_FetchOrder ==
    /\ requests =
          (IF pc = "start" \/ api_key = "" THEN << >> ELSE << TestsRequest >>)
          \o (IF test_id = NoTest THEN << >>
              ELSE << SessionListRequest(test_id) >>
                   \o ProcessedRequests(idx - 1) \o CurrentRequests)
    /\ (pc = "similarity" \/ Len(details) = idx) => HasCompletionMarker(details[idx])
    /\ file.open =>
          /\ failed_at = 0
          /\ idx = Len(sessions) + 1
          /\ Len(details) = Len(sessions)

C10_Witness ==
    /\ file.open
    /\ Len(sessions) = 2
    /\ Len(requests) = 5
    /\ ~HasCompletionMarker(details[1])
    /\ HasCompletionMarker(details[2])

====
